---- MODULE Spec2Model ----
(***************************************************************************)
(* PKCE flow metadata store and token exchanger of lib/pkce.ts.            *)
(*                                                                         *)
(* Strings are sequences of one-character strings; the JavaScript value    *)
(* undefined is the one-element sequence Undefined, which no string of     *)
(* characters equals.                                                      *)
(***************************************************************************)
EXTENDS Integers, Sequences, FiniteSets, TLC

\* ------------------------------------------------------------------ bounds
NumVerifiers == 2
NumExtras == 1
MaxPrefixLen == 130
NumSeeds == 3
NumFlows == 2

\* ------------------------------------------------------------ JS values
Undefined == <<"undefined">>
EmptyString == <<>>

\* !x of JavaScript, for x a string or undefined
Falsy(x) == x = Undefined \/ x = EmptyString
Truthy(x) == ~Falsy(x)

Verifiers == { <<"v", ToString(i)>> : i \in 1..NumVerifiers }
Extras == { <<"e", ToString(i)>> : i \in 1..NumExtras }

\* PKCEMeta objects: codeVerifier plus one caller-supplied flow parameter.
\* A key whose value is Undefined is absent from the object.
MetaObjects ==
  [codeVerifier : Verifiers \cup {Undefined, EmptyString},
   extra : Extras \cup {Undefined}]

\* {} : what getStorage() returns for a cleared tier
EmptyObject == [codeVerifier |-> Undefined, extra |-> Undefined]

\* ------------------------------------------------------ storage tiers
LocalStorage == "localStorage"
SessionStorage == "sessionStorage"
Tiers == {LocalStorage, SessionStorage}

\* sdk.options.cookies, reduced to the one key getPKCEStorage reads;
\* "unset" is the key being absent.
PreferValues == {"unset", "true", "false"}
NoOptions == "unset"

\* Object.assign({}, sdk.options.cookies, options): a key of options
\* overrides the same key of cookies.
MergeOptions(cookies, options) ==
  IF options # "unset" THEN options ELSE cookies

\* storageUtil.getPKCEStorage(options): the durable tier when
\* preferLocalStorage is true, the session tier otherwise.
getPKCEStorage(options) ==
  IF options = "true" THEN LocalStorage ELSE SessionStorage

getStorage(cookies, options) ==
  getPKCEStorage(MergeOptions(cookies, options))

\* storage backend of one tier, over the map tier -> stored object
StorageGet(st, tier) == st[tier]
StorageSet(st, tier, obj) == [st EXCEPT ![tier] = obj]
StorageClear(st, tier) == [st EXCEPT ![tier] = EmptyObject]

\* storage after one storage call, <<method, tier>>; meta is what a
\* setStorage writes
ApplyEffect(st, effect, meta) ==
  CASE effect[1] = "clearStorage" -> StorageClear(st, effect[2])
    [] effect[1] = "setStorage" -> StorageSet(st, effect[2], meta)
    [] OTHER -> st

\* storage after a sequence of storage calls
RECURSIVE ApplyEffects(_, _, _)
ApplyEffects(st, effects, meta) ==
  IF effects = <<>> THEN st
  ELSE ApplyEffects(ApplyEffect(st, Head(effects), meta), Tail(effects), meta)

\* encodeURIComponent: the characters it escapes, among those the model's
\* strings are made of; every other character is unreserved and kept.
Escaped(c) ==
  CASE c = ":" -> <<"%", "3", "A">>
    [] c = "/" -> <<"%", "2", "F">>
    [] c = "&" -> <<"%", "2", "6">>
    [] c = "=" -> <<"%", "3", "D">>
    [] c = "U+00E9" -> <<"%", "C", "3", "%", "A", "9">>
    [] OTHER -> <<c>>

RECURSIVE encodeURIComponent(_)
encodeURIComponent(str) ==
  IF str = <<>> THEN <<>>
  ELSE Escaped(Head(str)) \o encodeURIComponent(Tail(str))

\* ------------------------------------------------- verifier generator
MIN_VERIFIER_LENGTH == 43
MAX_VERIFIER_LENGTH == 128

HexDigits ==
  <<"0", "1", "2", "3", "4", "5", "6", "7", "8", "9", "a", "b", "c", "d", "e", "f">>

\* dec.toString(16), for a byte
toString16(dec) ==
  IF dec < 16 THEN <<HexDigits[dec + 1]>>
  ELSE <<HexDigits[(dec \div 16) + 1], HexDigits[(dec % 16) + 1]>>

\* str.substr(-2)
SubstrLast2(str) ==
  IF Len(str) <= 2 THEN str ELSE SubSeq(str, Len(str) - 1, Len(str))

\* str.slice(0, end)
Slice0(str, end) ==
  IF Len(str) <= end THEN str ELSE SubSeq(str, 1, end)

dec2hex(dec) == SubstrLast2(<<"0">> \o toString16(dec))

\* Array.from(a, dec2hex).join('')
RECURSIVE JoinHex(_)
JoinHex(a) ==
  IF a = <<>> THEN <<>> ELSE dec2hex(Head(a)) \o JoinHex(Tail(a))

\* Math.ceil(length / 2)
CeilHalf(length) == (length + 1) \div 2

\* what crypto.getRandomValues can leave in a Uint8Array of n bytes: one
\* array per seed
Seeds == 0..(NumSeeds - 1)
RandomValues(n, seed) == [i \in 1..n |-> (seed * 83 + i * 37) % 256]

\* getRandomString(length), the random source filling the array from seed
getRandomString(length, seed) ==
  Slice0(JoinHex(RandomValues(CeilHalf(length), seed)), length)

\* the prefix after prefix || '', padded to MIN_VERIFIER_LENGTH
PaddedVerifier(prefix, seed) ==
  IF Len(IF Falsy(prefix) THEN EmptyString ELSE prefix) < MIN_VERIFIER_LENGTH
    THEN (IF Falsy(prefix) THEN EmptyString ELSE prefix)
         \o getRandomString(
              MIN_VERIFIER_LENGTH
                - Len(IF Falsy(prefix) THEN EmptyString ELSE prefix),
              seed)
    ELSE prefix

\* the number of random characters generateVerifier(prefix) asks for
RandomCharsUsed(prefix) ==
  IF Len(IF Falsy(prefix) THEN EmptyString ELSE prefix) < MIN_VERIFIER_LENGTH
    THEN MIN_VERIFIER_LENGTH
           - Len(IF Falsy(prefix) THEN EmptyString ELSE prefix)
    ELSE 0

\* the prefixes tried: undefined, and for every length up to MaxPrefixLen the
\* strings of that length that end in k escaped characters, all ":" (one
\* byte, three characters encoded) or all "U+00E9" (two bytes, six encoded)
PrefixOf(n, k, c) == [i \in 1..n |-> IF i > n - k THEN c ELSE "a"]
Prefixes ==
  {Undefined}
  \cup { PrefixOf(n, k, c) :
           n \in 0..MaxPrefixLen, k \in 0..MaxPrefixLen, c \in {":", "U+00E9"} }

\* mutant: truncated, then encoded
generateVerifierSliceFirst(prefix, seed) ==
  encodeURIComponent(Slice0(PaddedVerifier(prefix, seed), MAX_VERIFIER_LENGTH))

\* mutant: padded to one character less
generateVerifierShort(prefix, seed) ==
  Slice0(encodeURIComponent(
           IF Falsy(prefix) \/ Len(prefix) < MIN_VERIFIER_LENGTH
             THEN Slice0(PaddedVerifier(prefix, seed), MIN_VERIFIER_LENGTH - 1)
             ELSE prefix),
         MAX_VERIFIER_LENGTH)

\* generateVerifier(prefix)
generateVerifier(prefix, seed) ==
  Slice0(encodeURIComponent(PaddedVerifier(prefix, seed)), MAX_VERIFIER_LENGTH)

\* ------------------------------------------------ flow metadata store
WarnLocalStorage == "saveMeta: PKCE codeVerifier exists in localStorage"
WarnSessionStorage == "saveMeta: PKCE codeVerifier exists in sessionStorage"

\* the two tiers clearMeta clears, in the order it clears them
clearMetaTiers(cookies) ==
  << getStorage(cookies, NoOptions), getStorage(cookies, "true") >>

clearMeta(st, cookies) ==
  StorageClear(StorageClear(st, clearMetaTiers(cookies)[1]),
               clearMetaTiers(cookies)[2])

clearMetaEffects(cookies) ==
  << <<"clearStorage", clearMetaTiers(cookies)[1]>>,
     <<"clearStorage", clearMetaTiers(cookies)[2]>> >>

\* mutant: only the first inspection warns
saveMetaWarningFirstOnly(k, obj) ==
  IF k = 1 /\ Truthy(obj.codeVerifier) THEN <<WarnLocalStorage>> ELSE <<>>

\* the warning of saveMeta's k-th inspection, which read obj
saveMetaWarning(k, obj) ==
  IF Truthy(obj.codeVerifier)
    THEN <<IF k = 1 THEN WarnLocalStorage ELSE WarnSessionStorage>>
    ELSE <<>>

\* the warnings saveMeta emits, in order: one per inspection that finds a
\* codeVerifier
saveMetaWarnings(st, cookies) ==
  saveMetaWarning(1, StorageGet(st, getStorage(cookies, "true")))
  \o saveMetaWarning(2, StorageGet(st, getStorage(cookies, NoOptions)))

\* mutant: the record is written before the tiers are cleared
saveMetaClearsLast(st, cookies, meta) ==
  [storage |-> clearMeta(StorageSet(st, getStorage(cookies, NoOptions), meta),
                         cookies),
   warnings |-> saveMetaWarnings(st, cookies),
   effects |-> << <<"getStorage", getStorage(cookies, "true")>>,
                  <<"getStorage", getStorage(cookies, NoOptions)>>,
                  <<"setStorage", getStorage(cookies, NoOptions)>> >>
               \o clearMetaEffects(cookies),
   threw |-> FALSE]

\* saveMeta(sdk, meta): the storage after the call, the warnings emitted, the
\* storage calls made, and whether it threw
saveMeta(st, cookies, meta) ==
  [storage |-> StorageSet(clearMeta(st, cookies),
                          getStorage(cookies, NoOptions), meta),
   warnings |-> saveMetaWarnings(st, cookies),
   effects |-> << <<"getStorage", getStorage(cookies, "true")>>,
                  <<"getStorage", getStorage(cookies, NoOptions)>> >>
               \o clearMetaEffects(cookies)
               \o << <<"setStorage", getStorage(cookies, NoOptions)>> >>,
   threw |-> FALSE]

\* the tiers loadMeta reads, in order; it stops at the first that holds a
\* codeVerifier
loadMetaTiers(cookies) ==
  << getStorage(cookies, "true"), getStorage(cookies, "false") >>

\* mutant: the session tier is read first
loadMetaSessionFirst(st, cookies) ==
  IF Truthy(StorageGet(st, getStorage(cookies, "false")).codeVerifier)
    THEN [threw |-> FALSE, obj |-> StorageGet(st, getStorage(cookies, "false"))]
  ELSE IF Truthy(StorageGet(st, getStorage(cookies, "true")).codeVerifier)
    THEN [threw |-> FALSE, obj |-> StorageGet(st, getStorage(cookies, "true"))]
  ELSE [threw |-> TRUE, obj |-> EmptyObject]

\* loadMeta(sdk): the object returned, or threw (the AuthSdkError
\* 'Could not load PKCE codeVerifier from storage')
loadMeta(st, cookies) ==
  IF Truthy(StorageGet(st, getStorage(cookies, "true")).codeVerifier)
    THEN [threw |-> FALSE, obj |-> StorageGet(st, getStorage(cookies, "true"))]
  ELSE IF Truthy(StorageGet(st, getStorage(cookies, "false")).codeVerifier)
    THEN [threw |-> FALSE, obj |-> StorageGet(st, getStorage(cookies, "false"))]
  ELSE [threw |-> TRUE, obj |-> EmptyObject]

\* mutant: the record found is removed from its tier
loadMetaConsumes(st, cookies) ==
  IF Truthy(StorageGet(st, getStorage(cookies, "true")).codeVerifier)
    THEN << <<"getStorage", getStorage(cookies, "true")>>,
            <<"clearStorage", getStorage(cookies, "true")>> >>
    ELSE << <<"getStorage", getStorage(cookies, "true")>>,
            <<"getStorage", getStorage(cookies, "false")>>,
            <<"clearStorage", getStorage(cookies, "false")>> >>

\* the storage calls loadMeta makes, in order
loadMetaEffects(st, cookies) ==
  IF Truthy(StorageGet(st, getStorage(cookies, "true")).codeVerifier)
    THEN << <<"getStorage", getStorage(cookies, "true")>> >>
    ELSE << <<"getStorage", getStorage(cookies, "true")>>,
            <<"getStorage", getStorage(cookies, "false")>> >>

\* ----------------------------------------------------- token exchanger
\* TokenParams: each field undefined, the empty string, or a value
ClientIds == { <<"a", "b", "c">> }
RedirectUris == { <<"h", ":", "/", "/", "a", "/", "c", "b">> }
AuthorizationCodes == { <<"c", "1", "=", "&">> }
InteractionCodes == { <<"i", "1">> }
Unset == {Undefined, EmptyString}

TokenParams ==
  [clientId : ClientIds \cup Unset,
   redirectUri : RedirectUris \cup Unset,
   authorizationCode : AuthorizationCodes \cup Unset,
   interactionCode : InteractionCodes \cup Unset,
   codeVerifier : Verifiers \cup Unset]

ErrNone == "none"
ErrClientId == "A clientId must be specified in the OktaAuth constructor to get a token"
ErrRedirectUri == "The redirectUri passed to /authorize must also be passed to /token"
ErrCode == "An authorization code (returned from /authorize) must be passed to /token"
ErrCodeVerifier == "The codeVerifier (generated and saved by your app) must be passed to /token"
ValidationErrors == {ErrClientId, ErrRedirectUri, ErrCode, ErrCodeVerifier}

\* mutant: the codeVerifier check comes before the code check
validateOptionsVerifierFirst(options) ==
  IF Falsy(options.clientId) THEN ErrClientId
  ELSE IF Falsy(options.redirectUri) THEN ErrRedirectUri
  ELSE IF Falsy(options.codeVerifier) THEN ErrCodeVerifier
  ELSE IF Falsy(options.authorizationCode) /\ Falsy(options.interactionCode)
    THEN ErrCode
  ELSE ErrNone

\* validateOptions(options): the message of the AuthSdkError thrown, or
\* ErrNone when it returns
validateOptions(options) ==
  IF Falsy(options.clientId) THEN ErrClientId
  ELSE IF Falsy(options.redirectUri) THEN ErrRedirectUri
  ELSE IF Falsy(options.authorizationCode) /\ Falsy(options.interactionCode)
    THEN ErrCode
  ELSE IF Falsy(options.codeVerifier) THEN ErrCodeVerifier
  ELSE ErrNone

\* removeNils(obj): obj, a sequence of <<key, value>> in insertion order,
\* without the keys whose value is null or undefined
RECURSIVE removeNils(_)
removeNils(obj) ==
  IF obj = <<>> THEN <<>>
  ELSE IF Head(obj)[2] = Undefined THEN removeNils(Tail(obj))
  ELSE <<Head(obj)>> \o removeNils(Tail(obj))

\* toQueryString(obj): "?" followed by one key=value segment per key whose
\* value is neither undefined nor null, the value percent-encoded; the
\* empty string when there is no such key.  A segment is <<key, encoded value>>.
RECURSIVE QuerySegments(_)
QuerySegments(obj) ==
  IF obj = <<>> THEN <<>>
  ELSE IF Head(obj)[2] = Undefined THEN QuerySegments(Tail(obj))
  ELSE << <<Head(obj)[1], encodeURIComponent(Head(obj)[2])>> >>
       \o QuerySegments(Tail(obj))

toQueryString(obj) ==
  IF QuerySegments(obj) = <<>> THEN <<>>
  ELSE << <<"?", <<>> >> >> \o QuerySegments(obj)

\* str.slice(1)
Slice1(str) == IF str = <<>> THEN <<>> ELSE Tail(str)

GrantInteractionCode == <<"i", "n", "t", "e", "r", "a", "c", "t", "i", "o", "n", "_", "c", "o", "d", "e">>
GrantAuthorizationCode == <<"a", "u", "t", "h", "o", "r", "i", "z", "a", "t", "i", "o", "n", "_", "c", "o", "d", "e">>

\* mutant: the authorization code takes precedence over the interaction code
getPostDataCodeFirst(options) ==
  Slice1(toQueryString(
    removeNils(<< <<"client_id", options.clientId>>,
                  <<"redirect_uri", options.redirectUri>>,
                  <<"grant_type", IF Truthy(options.authorizationCode)
                                    THEN GrantAuthorizationCode
                                    ELSE GrantInteractionCode>>,
                  <<"code_verifier", options.codeVerifier>> >>)
    \o (IF Truthy(options.authorizationCode)
          THEN << <<"code", options.authorizationCode>> >>
        ELSE IF Truthy(options.interactionCode)
          THEN << <<"interaction_code", options.interactionCode>> >>
        ELSE <<>>)))

\* mutant: each code is added when set, without the else
getPostDataBothCodes(options) ==
  Slice1(toQueryString(
    removeNils(<< <<"client_id", options.clientId>>,
                  <<"redirect_uri", options.redirectUri>>,
                  <<"grant_type", IF Truthy(options.interactionCode)
                                    THEN GrantInteractionCode
                                    ELSE GrantAuthorizationCode>>,
                  <<"code_verifier", options.codeVerifier>> >>)
    \o (IF Truthy(options.interactionCode)
          THEN << <<"interaction_code", options.interactionCode>> >>
          ELSE <<>>)
    \o (IF Truthy(options.authorizationCode)
          THEN << <<"code", options.authorizationCode>> >>
          ELSE <<>>)))

\* getPostData(options): the form body, as its key=value segments in order
getPostData(options) ==
  Slice1(toQueryString(
    removeNils(<< <<"client_id", options.clientId>>,
                  <<"redirect_uri", options.redirectUri>>,
                  <<"grant_type", IF Truthy(options.interactionCode)
                                    THEN GrantInteractionCode
                                    ELSE GrantAuthorizationCode>>,
                  <<"code_verifier", options.codeVerifier>> >>)
    \o (IF Truthy(options.interactionCode)
          THEN << <<"interaction_code", options.interactionCode>> >>
        ELSE IF Truthy(options.authorizationCode)
          THEN << <<"code", options.authorizationCode>> >>
        ELSE <<>>)))

TokenUrl == "urls.tokenUrl"

\* the argument exchangeCodeForTokens passes to http.httpRequest
HttpRequest(options) ==
  [url |-> TokenUrl,
   method |-> "POST",
   args |-> getPostData(options),
   withCredentials |-> FALSE,
   contentType |-> "application/x-www-form-urlencoded"]

\* mutant: the request is sent whatever validateOptions found
exchangeSendsUnvalidated(options) ==
  [error |-> validateOptions(options),
   requests |-> <<HttpRequest(options)>>]

\* exchangeCodeForTokens(sdk, options, urls): the error thrown (ErrNone when
\* it returns the promise of http.httpRequest) and the requests it issued
exchangeCodeForTokens(options) ==
  IF validateOptions(options) # ErrNone
    THEN [error |-> validateOptions(options), requests |-> <<>>]
    ELSE [error |-> ErrNone, requests |-> <<HttpRequest(options)>>]

\* what http.httpRequest's promise can settle with
Responses == {"response 1", "response 2"}
TransportErrors == {"transport error"}
HttpOutcomes ==
  [kind : {"resolved"}, value : Responses]
  \cup [kind : {"rejected"}, value : TransportErrors]
NoOutcome == [kind |-> "none", value |-> "none"]
Pending == [kind |-> "pending", value |-> "none"]

\* mutant: a failed request is sent again
exchangeSettleRetries(request, outcome) ==
  [returned |-> outcome,
   requests |-> IF outcome.kind = "rejected" THEN <<request>> ELSE <<>>]

\* exchangeCodeForTokens returns the promise of http.httpRequest itself: what
\* the caller's promise settles with when the request settles with outcome,
\* and the further requests the call issues then
exchangeSettle(request, outcome) ==
  [returned |-> outcome, requests |-> <<>>]

\* ------------------------------------------------------------- state
VARIABLES
  storage,        \* tier -> the object the tier holds
  lastOp,         \* the operation that ran last
  lastCookies,    \* its sdk.options.cookies
  lastMeta,       \* saveMeta: its meta argument
  lastLoad,       \* loadMeta: what it returned, or that it threw
  lastWarnings,   \* saveMeta: the warnings it emitted, in order
  lastEffects,    \* the storage calls it made, in order
  lastThrew,      \* whether it threw
  preStorage,     \* storage when it started
  prevOp,         \* the operation that ran before it
  prevSaved,      \* <<meta>> when the operation before it was saveMeta(meta)
  lastOptions,    \* exchangeCodeForTokens: its options argument
  lastError,      \* exchangeCodeForTokens: the error it threw, or ErrNone
  lastRequests,   \* exchangeCodeForTokens: the HTTP requests it issued
  httpResult,     \* what the request of the last call settled with, or Pending
  returned,       \* what the promise the last call returned settled with
  genPrefix,      \* generateVerifier: its prefix argument
  genSeed,        \* generateVerifier: what the random source yields
  genDone,        \* generateVerifier has returned
  genResult,      \* generateVerifier: the string it returned
  genRandomUsed,  \* generateVerifier: the random characters it asked for
  flowPc,         \* one flow from start to callback: where it is
  flowCookies,    \* its sdk.options.cookies
  flowLoad1,      \* what its loadMeta after the redirect gave
  flowPosts,      \* the HTTP requests it has issued
  procs           \* overlapping flows: each flow's position and locals

vars == << storage, lastOp, lastCookies, lastMeta, lastLoad, lastWarnings,
           lastEffects, lastThrew, preStorage, prevOp, prevSaved, lastOptions,
           lastError, lastRequests, httpResult, returned, genPrefix, genSeed,
           genDone, genResult, genRandomUsed, flowPc, flowCookies, flowLoad1,
           flowPosts, procs >>

genVars == << genPrefix, genSeed, genDone, genResult, genRandomUsed >>

flowVars == << flowPc, flowCookies, flowLoad1, flowPosts >>

\* no flow is being followed
NoFlow ==
  /\ flowPc = "none"
  /\ flowCookies = "unset"
  /\ flowLoad1 = [threw |-> FALSE, obj |-> EmptyObject]
  /\ flowPosts = <<>>

NoParams ==
  [clientId |-> Undefined, redirectUri |-> Undefined,
   authorizationCode |-> Undefined, interactionCode |-> Undefined,
   codeVerifier |-> Undefined]

NoLoad == [threw |-> FALSE, obj |-> EmptyObject]

\* what every operation records about the one before it
History(op, cookies) ==
  /\ lastOp' = op
  /\ lastCookies' = cookies
  /\ preStorage' = storage
  /\ prevOp' = lastOp
  /\ prevSaved' = IF lastOp = "saveMeta" THEN <<lastMeta>> ELSE <<>>

\* Before the first call the two tiers hold whatever earlier flows, or an
\* older component writing to localStorage, left there.
Init ==
  /\ storage \in [Tiers -> MetaObjects]
  /\ lastOp = "none"
  /\ lastCookies = "unset"
  /\ lastMeta = EmptyObject
  /\ lastLoad = NoLoad
  /\ lastWarnings = <<>>
  /\ lastEffects = <<>>
  /\ lastThrew = FALSE
  /\ preStorage = storage
  /\ prevOp = "none"
  /\ prevSaved = <<>>
  /\ lastOptions = NoParams
  /\ lastError = ErrNone
  /\ lastRequests = <<>>
  /\ httpResult = NoOutcome
  /\ returned = NoOutcome
  /\ genPrefix = Undefined
  /\ genSeed = 0
  /\ genDone = FALSE
  /\ genResult = EmptyString
  /\ genRandomUsed = 0
  /\ NoFlow
  /\ procs = <<>>

\* the tiers are empty before the first call
InitFresh ==
  /\ Init
  /\ storage = [t \in Tiers |-> EmptyObject]

SaveMetaCall(cookies, meta) ==
    /\ History("saveMeta", cookies)
    /\ storage' = saveMeta(storage, cookies, meta).storage
    /\ lastMeta' = meta
    /\ lastWarnings' = saveMeta(storage, cookies, meta).warnings
    /\ lastEffects' = saveMeta(storage, cookies, meta).effects
    /\ lastThrew' = saveMeta(storage, cookies, meta).threw
    /\ lastLoad' = NoLoad
    /\ lastOptions' = NoParams
    /\ lastError' = ErrNone
    /\ lastRequests' = <<>>
    /\ httpResult' = NoOutcome
    /\ returned' = NoOutcome

SaveMeta ==
  \E cookies \in PreferValues, meta \in MetaObjects :
    /\ SaveMetaCall(cookies, meta)
    /\ UNCHANGED << genVars, flowVars, procs >>

LoadMetaCall(cookies) ==
    /\ History("loadMeta", cookies)
    /\ storage' = ApplyEffects(storage, loadMetaEffects(storage, cookies),
                               EmptyObject)
    /\ lastLoad' = loadMeta(storage, cookies)
    /\ lastThrew' = loadMeta(storage, cookies).threw
    /\ lastMeta' = EmptyObject
    /\ lastWarnings' = <<>>
    /\ lastEffects' = loadMetaEffects(storage, cookies)
    /\ lastOptions' = NoParams
    /\ lastError' = ErrNone
    /\ lastRequests' = <<>>
    /\ httpResult' = NoOutcome
    /\ returned' = NoOutcome

LoadMeta ==
  \E cookies \in PreferValues :
    /\ LoadMetaCall(cookies)
    /\ UNCHANGED << genVars, flowVars, procs >>

ClearMetaCall(cookies) ==
    /\ History("clearMeta", cookies)
    /\ storage' = clearMeta(storage, cookies)
    /\ lastEffects' = clearMetaEffects(cookies)
    /\ lastThrew' = FALSE
    /\ lastMeta' = EmptyObject
    /\ lastLoad' = NoLoad
    /\ lastWarnings' = <<>>
    /\ lastOptions' = NoParams
    /\ lastError' = ErrNone
    /\ lastRequests' = <<>>
    /\ httpResult' = NoOutcome
    /\ returned' = NoOutcome

ClearMeta ==
  \E cookies \in PreferValues :
    /\ ClearMetaCall(cookies)
    /\ UNCHANGED << genVars, flowVars, procs >>

\* The call reads nothing of sdk: it hands sdk to http.httpRequest.
ExchangeCall(options) ==
    /\ History("exchangeCodeForTokens", "unset")
    /\ storage' = storage
    /\ lastOptions' = options
    /\ lastError' = exchangeCodeForTokens(options).error
    /\ lastRequests' = exchangeCodeForTokens(options).requests
    /\ lastThrew' = (exchangeCodeForTokens(options).error # ErrNone)
    /\ httpResult' = IF exchangeCodeForTokens(options).requests = <<>>
                       THEN NoOutcome ELSE Pending
    /\ returned' = IF exchangeCodeForTokens(options).requests = <<>>
                     THEN NoOutcome ELSE Pending
    /\ lastMeta' = EmptyObject
    /\ lastLoad' = NoLoad
    /\ lastWarnings' = <<>>
    /\ lastEffects' = <<>>

ExchangeCodeForTokens ==
  \E options \in TokenParams :
    /\ ExchangeCall(options)
    /\ UNCHANGED << genVars, flowVars, procs >>

\* the flow metadata store
Next ==
  \/ SaveMeta
  \/ LoadMeta
  \/ ClearMeta

\* the HTTP collaborator settles the request in flight, and with it the promise
\* the call returned
SettleWith(outcome) ==
    /\ httpResult = Pending
    /\ httpResult' = outcome
    /\ returned' = exchangeSettle(lastRequests[1], outcome).returned
    /\ lastRequests' =
         lastRequests \o exchangeSettle(lastRequests[1], outcome).requests
    /\ UNCHANGED << storage, lastOp, lastCookies, lastMeta, lastLoad,
                    lastWarnings, lastEffects, lastThrew, preStorage, prevOp,
                    prevSaved, lastOptions, lastError >>

HttpSettle ==
  \E outcome \in HttpOutcomes :
    /\ SettleWith(outcome)
    /\ UNCHANGED << genVars, flowVars, procs >>

\* the token exchanger, which shares no state with the store
NextExchange ==
  \/ ExchangeCodeForTokens
  \/ HttpSettle

Spec == Init /\ [][Next]_vars

SpecFresh == InitFresh /\ [][Next]_vars

SpecExchange == InitFresh /\ [][NextExchange]_vars

\* one call of generateVerifier, for every prefix and random outcome tried
InitVerifier ==
  /\ storage = [t \in Tiers |-> EmptyObject]
  /\ lastOp = "none"
  /\ lastCookies = "unset"
  /\ lastMeta = EmptyObject
  /\ lastLoad = NoLoad
  /\ lastWarnings = <<>>
  /\ lastEffects = <<>>
  /\ lastThrew = FALSE
  /\ preStorage = storage
  /\ prevOp = "none"
  /\ prevSaved = <<>>
  /\ lastOptions = NoParams
  /\ lastError = ErrNone
  /\ lastRequests = <<>>
  /\ httpResult = NoOutcome
  /\ returned = NoOutcome
  /\ genPrefix \in Prefixes
  /\ genSeed \in Seeds
  /\ genDone = FALSE
  /\ genResult = EmptyString
  /\ genRandomUsed = 0
  /\ NoFlow
  /\ procs = <<>>

GenerateCall ==
  /\ ~genDone
  /\ genDone' = TRUE
  /\ genResult' = generateVerifier(genPrefix, genSeed)
  /\ genRandomUsed' = RandomCharsUsed(genPrefix)
  /\ UNCHANGED << genPrefix, genSeed >>
  /\ UNCHANGED << storage, lastOp, lastCookies, lastMeta, lastLoad,
                  lastWarnings, lastEffects, lastThrew, preStorage, prevOp,
                  prevSaved, lastOptions, lastError, lastRequests, httpResult,
                  returned >>

GenerateVerifier ==
  /\ GenerateCall
  /\ UNCHANGED << flowVars, procs >>

NextVerifier == GenerateVerifier

SpecVerifier == InitVerifier /\ [][NextVerifier]_vars

\* ------------------------------------------- one flow, start to callback
\* The initiator of spec section 2: generateVerifier(), saveMeta, the
\* redirect, loadMeta, exchangeCodeForTokens with an authorization code,
\* clearMeta; then the callback is handled a second time.  The tiers start
\* with whatever earlier flows left, and the flow's sdk has any cookies.
InitFlow ==
  /\ storage \in [Tiers -> MetaObjects]
  /\ lastOp = "none"
  /\ lastCookies = "unset"
  /\ lastMeta = EmptyObject
  /\ lastLoad = NoLoad
  /\ lastWarnings = <<>>
  /\ lastEffects = <<>>
  /\ lastThrew = FALSE
  /\ preStorage = storage
  /\ prevOp = "none"
  /\ prevSaved = <<>>
  /\ lastOptions = NoParams
  /\ lastError = ErrNone
  /\ lastRequests = <<>>
  /\ httpResult = NoOutcome
  /\ returned = NoOutcome
  /\ genPrefix = Undefined
  /\ genSeed \in Seeds
  /\ genDone = FALSE
  /\ genResult = EmptyString
  /\ genRandomUsed = 0
  /\ flowPc = "start"
  /\ flowCookies \in PreferValues
  /\ flowLoad1 = NoLoad
  /\ flowPosts = <<>>
  /\ procs = <<>>

\* the options the flow's exchange is called with
FlowOptions(verifier) ==
  [clientId |-> <<"a", "b", "c">>,
   redirectUri |-> <<"h", ":", "/", "/", "a", "/", "c", "b">>,
   authorizationCode |-> <<"c", "1", "=", "&">>,
   interactionCode |-> Undefined,
   codeVerifier |-> verifier]

FlowGenerate ==
  /\ flowPc = "start"
  /\ GenerateCall
  /\ flowPc' = "generated"
  /\ UNCHANGED << flowCookies, flowLoad1, flowPosts, procs >>

FlowSave ==
  /\ flowPc = "generated"
  /\ SaveMetaCall(flowCookies, [codeVerifier |-> genResult, extra |-> Undefined])
  /\ flowPc' = "saved"
  /\ UNCHANGED << genVars, flowCookies, flowLoad1, flowPosts, procs >>

FlowLoad ==
  /\ flowPc = "saved"
  /\ LoadMetaCall(flowCookies)
  /\ flowLoad1' = loadMeta(storage, flowCookies)
  /\ flowPc' = IF loadMeta(storage, flowCookies).threw THEN "failed" ELSE "loaded"
  /\ UNCHANGED << genVars, flowCookies, flowPosts, procs >>

FlowExchange ==
  /\ flowPc = "loaded"
  /\ ExchangeCall(FlowOptions(flowLoad1.obj.codeVerifier))
  /\ flowPosts' =
       flowPosts
         \o exchangeCodeForTokens(FlowOptions(flowLoad1.obj.codeVerifier)).requests
  /\ flowPc' =
       IF exchangeCodeForTokens(FlowOptions(flowLoad1.obj.codeVerifier)).error
            # ErrNone
         THEN "failed" ELSE "exchanging"
  /\ UNCHANGED << genVars, flowCookies, flowLoad1, procs >>

FlowSettle ==
  \E outcome \in HttpOutcomes :
    /\ flowPc = "exchanging"
    /\ SettleWith(outcome)
    /\ flowPosts' = flowPosts \o exchangeSettle(lastRequests[1], outcome).requests
    /\ flowPc' = IF outcome.kind = "resolved" THEN "exchanged" ELSE "failed"
    /\ UNCHANGED << genVars, flowCookies, flowLoad1, procs >>

FlowClear ==
  /\ flowPc = "exchanged"
  /\ ClearMetaCall(flowCookies)
  /\ flowPc' = "cleared"
  /\ UNCHANGED << genVars, flowCookies, flowLoad1, flowPosts, procs >>

FlowLoadAgain ==
  /\ flowPc = "cleared"
  /\ LoadMetaCall(flowCookies)
  /\ flowPc' = "done"
  /\ UNCHANGED << genVars, flowCookies, flowLoad1, flowPosts, procs >>

NextFlow ==
  \/ FlowGenerate
  \/ FlowSave
  \/ FlowLoad
  \/ FlowExchange
  \/ FlowSettle
  \/ FlowClear
  \/ FlowLoadAgain

SpecFlow == InitFlow /\ [][NextFlow]_vars

\* ------------------------------------------------- overlapping flows
\* NumFlows flows share the two tiers.  Each runs saveMeta with its own
\* verifier, then loadMeta, then (when loadMeta returned) clearMeta, one
\* storage call at a time; the calls of different flows interleave freely.
Flows == 1..NumFlows

OwnMeta(p) == [codeVerifier |-> <<"v", ToString(p)>>, extra |-> Undefined]

\* the storage calls of flow p's saveMeta, in order
SaveSteps(p) ==
  saveMeta(storage, procs.flow[p].cookies, OwnMeta(p)).effects

\* the flows other than p whose record effect, a clearStorage or a setStorage
\* of flow p, removes from its tier
Destroyed(p, effect) ==
  { q \in Flows \ {p} :
      /\ effect[1] \in {"clearStorage", "setStorage"}
      /\ storage[effect[2]] = OwnMeta(q) }

InitConc ==
  /\ storage = [t \in Tiers |-> EmptyObject]
  /\ lastOp = "none"
  /\ lastCookies = "unset"
  /\ lastMeta = EmptyObject
  /\ lastLoad = NoLoad
  /\ lastWarnings = <<>>
  /\ lastEffects = <<>>
  /\ lastThrew = FALSE
  /\ preStorage = storage
  /\ prevOp = "none"
  /\ prevSaved = <<>>
  /\ lastOptions = NoParams
  /\ lastError = ErrNone
  /\ lastRequests = <<>>
  /\ httpResult = NoOutcome
  /\ returned = NoOutcome
  /\ genPrefix = Undefined
  /\ genSeed = 0
  /\ genDone = FALSE
  /\ genResult = EmptyString
  /\ genRandomUsed = 0
  /\ NoFlow
  /\ \E cookies \in [Flows -> PreferValues] :
       procs =
         [flow |-> [p \in Flows |->
                      [pc |-> "save",        \* the call the flow is in
                       i |-> 1,              \* its next storage call
                       cookies |-> cookies[p],
                       warnings |-> <<>>,    \* emitted by its saveMeta
                       loaded |-> EmptyObject, \* returned by its loadMeta
                       seen |-> 0,           \* inspections that found another
                                             \* flow's record
                       lost |-> FALSE]],     \* another flow's storage call
                                             \* removed its record
          lastWriter |-> 0,                  \* the flow whose setStorage ran last
          overlapped |-> FALSE]              \* two saveMeta calls overlapped

\* the next storage call of flow p's saveMeta
SaveStep(p) ==
  /\ procs.flow[p].pc = "save"
  /\ storage' = ApplyEffect(storage, SaveSteps(p)[procs.flow[p].i], OwnMeta(p))
  /\ procs' =
       [flow |->
          [q \in Flows |->
             IF q = p
               THEN [procs.flow[p] EXCEPT
                       !.pc = IF procs.flow[p].i = Len(SaveSteps(p))
                                THEN "load" ELSE "save",
                       !.i = IF procs.flow[p].i = Len(SaveSteps(p))
                               THEN 1 ELSE procs.flow[p].i + 1,
                       !.warnings =
                          IF SaveSteps(p)[procs.flow[p].i][1] = "getStorage"
                            THEN @ \o saveMetaWarning(
                                        procs.flow[p].i,
                                        StorageGet(storage,
                                                   SaveSteps(p)[procs.flow[p].i][2]))
                            ELSE @,
                       !.seen =
                          IF /\ SaveSteps(p)[procs.flow[p].i][1] = "getStorage"
                             /\ \E o \in Flows \ {p} :
                                  storage[SaveSteps(p)[procs.flow[p].i][2]]
                                    = OwnMeta(o)
                            THEN @ + 1 ELSE @]
               ELSE [procs.flow[q] EXCEPT
                       !.lost = @ \/ q \in Destroyed(p, SaveSteps(p)[procs.flow[p].i])]],
        lastWriter |->
          IF SaveSteps(p)[procs.flow[p].i][1] = "setStorage"
            THEN p ELSE procs.lastWriter,
        overlapped |->
          \/ procs.overlapped
          \/ \E q \in Flows \ {p} :
               procs.flow[q].pc = "save" /\ procs.flow[q].i > 1]
  /\ UNCHANGED << lastOp, lastCookies, lastMeta, lastLoad, lastWarnings,
                  lastEffects, lastThrew, preStorage, prevOp, prevSaved,
                  lastOptions, lastError, lastRequests, httpResult, returned,
                  genVars, flowVars >>

\* the next read of flow p's loadMeta
LoadStep(p) ==
  /\ procs.flow[p].pc = "load"
  /\ procs' =
       [procs EXCEPT
          !.flow[p] =
            IF Truthy(StorageGet(storage,
                        loadMetaTiers(procs.flow[p].cookies)[procs.flow[p].i])
                      .codeVerifier)
              THEN [@ EXCEPT
                      !.pc = "clear",
                      !.i = 1,
                      !.loaded =
                         StorageGet(storage,
                           loadMetaTiers(procs.flow[p].cookies)[procs.flow[p].i])]
            ELSE IF procs.flow[p].i = Len(loadMetaTiers(procs.flow[p].cookies))
              THEN [@ EXCEPT !.pc = "failed"]
            ELSE [@ EXCEPT !.i = procs.flow[p].i + 1]]
  /\ UNCHANGED << storage, lastOp, lastCookies, lastMeta, lastLoad, lastWarnings,
                  lastEffects, lastThrew, preStorage, prevOp, prevSaved,
                  lastOptions, lastError, lastRequests, httpResult, returned,
                  genVars, flowVars >>

\* the next clearStorage of flow p's clearMeta
ClearStep(p) ==
  /\ procs.flow[p].pc = "clear"
  /\ storage' =
       ApplyEffect(storage,
                   clearMetaEffects(procs.flow[p].cookies)[procs.flow[p].i],
                   EmptyObject)
  /\ procs' =
       [procs EXCEPT
          !.flow =
            [q \in Flows |->
               IF q = p
                 THEN [procs.flow[p] EXCEPT
                         !.pc = IF procs.flow[p].i
                                    = Len(clearMetaEffects(procs.flow[p].cookies))
                                  THEN "done" ELSE "clear",
                         !.i = procs.flow[p].i + 1]
                 ELSE [procs.flow[q] EXCEPT
                         !.lost =
                            @ \/ q \in Destroyed(
                                         p,
                                         clearMetaEffects(procs.flow[p].cookies)
                                           [procs.flow[p].i])]]]
  /\ UNCHANGED << lastOp, lastCookies, lastMeta, lastLoad, lastWarnings,
                  lastEffects, lastThrew, preStorage, prevOp, prevSaved,
                  lastOptions, lastError, lastRequests, httpResult, returned,
                  genVars, flowVars >>

NextConc ==
  \E p \in Flows :
    \/ SaveStep(p)
    \/ LoadStep(p)
    \/ ClearStep(p)

SpecConc == InitConc /\ [][NextConc]_vars

\* ------------------------------------------------------------ claims
HasVerifier(obj) == Truthy(obj.codeVerifier)

\* C1: saveMeta({codeVerifier: v, ...extra}) with v non-empty, followed
\* immediately by loadMeta(), returns a record whose codeVerifier is v and
\* which holds every extra parameter with its saved value, whatever the two
\* tiers held before and whatever sdk.options.cookies is.
C1_RoundTrip ==
  (lastOp = "loadMeta" /\ prevOp = "saveMeta" /\ HasVerifier(prevSaved[1]))
    => /\ ~lastLoad.threw
       /\ lastLoad.obj.codeVerifier = prevSaved[1].codeVerifier
       /\ prevSaved[1].extra # Undefined
            => lastLoad.obj.extra = prevSaved[1].extra

\* a round trip with an extra parameter, past another record still held by
\* the session tier
C1_Witness ==
  /\ lastOp = "loadMeta" /\ prevOp = "saveMeta"
  /\ HasVerifier(prevSaved[1])
  /\ prevSaved[1].extra # Undefined
  /\ lastLoad.obj = prevSaved[1]
  /\ HasVerifier(storage[SessionStorage])
  /\ storage[SessionStorage] # prevSaved[1]

\* C2: after clearMeta(), a loadMeta() with no saveMeta in between fails
\* with the 'no PKCE state found' error, whatever the tiers held.
C2_LoadAfterClearFails ==
  (lastOp = "loadMeta" /\ prevOp = "clearMeta") => lastLoad.threw

\* C3: after saveMeta(meta) the durable tier is empty and the session tier
\* holds exactly meta, for every prior content and every configuration.
C3_NoStaleRecordAfterSave ==
  lastOp = "saveMeta"
    => /\ storage[LocalStorage] = EmptyObject
       /\ storage[SessionStorage] = lastMeta

\* C4: loadMeta() returns the durable tier's record when that has a
\* codeVerifier, else the session tier's record when that has one, and throws
\* exactly when neither has one.
C4_LoadPrecedence ==
  lastOp = "loadMeta"
    => /\ HasVerifier(preStorage[LocalStorage])
            => (~lastLoad.threw /\ lastLoad.obj = preStorage[LocalStorage])
       /\ (~HasVerifier(preStorage[LocalStorage])
           /\ HasVerifier(preStorage[SessionStorage]))
            => (~lastLoad.threw /\ lastLoad.obj = preStorage[SessionStorage])
       /\ lastLoad.threw
            <=> (~HasVerifier(preStorage[LocalStorage])
                 /\ ~HasVerifier(preStorage[SessionStorage]))

\* both tiers hold different records and the durable one is returned
C4_Witness ==
  /\ lastOp = "loadMeta"
  /\ HasVerifier(preStorage[LocalStorage])
  /\ HasVerifier(preStorage[SessionStorage])
  /\ preStorage[LocalStorage] # preStorage[SessionStorage]
  /\ ~lastLoad.threw
  /\ lastLoad.obj = preStorage[LocalStorage]

\* C5: in every state the calls reach from empty tiers, the two tiers never
\* both hold a record with a codeVerifier.
C5_AtMostOneRecord ==
  ~(HasVerifier(storage[LocalStorage]) /\ HasVerifier(storage[SessionStorage]))

\* the number of tiers of st that hold a codeVerifier
TiersWithVerifier(st) == Cardinality({t \in Tiers : HasVerifier(st[t])})

\* C6: saveMeta never throws; it emits one warning per tier that holds a
\* codeVerifier when inspected, and none otherwise; and it always clears both
\* tiers and writes the new record.
C6_WarnsAndProceeds ==
  lastOp = "saveMeta"
    => /\ ~lastThrew
       /\ Len(lastWarnings) = TiersWithVerifier(preStorage)
       /\ \A t \in Tiers :
            \E i \in 1..Len(lastEffects) : lastEffects[i] = <<"clearStorage", t>>
       /\ lastEffects[Len(lastEffects)][1] = "setStorage"
       /\ \E t \in Tiers : storage[t] = lastMeta

\* C7: clearMeta() clears the session tier, then the durable tier, and leaves
\* both empty, for every prior content and every configuration; it never
\* throws.
C7_ClearEmptiesBothTiers ==
  lastOp = "clearMeta"
    => /\ ~lastThrew
       /\ lastEffects = << <<"clearStorage", SessionStorage>>,
                           <<"clearStorage", LocalStorage>> >>
       /\ storage = [t \in Tiers |-> EmptyObject]

\* a field of the options that is undefined or the empty string
Missing(x) == x \in {Undefined, EmptyString}

\* C8: exchangeCodeForTokens reports only the first violated check, in the
\* order clientId, redirectUri, code (authorizationCode and interactionCode
\* both missing), codeVerifier; it reports none when all four checks pass.
C8_ValidationOrder ==
  lastOp = "exchangeCodeForTokens"
    => lastError =
         (CASE Missing(lastOptions.clientId) -> ErrClientId
            [] ~Missing(lastOptions.clientId)
               /\ Missing(lastOptions.redirectUri) -> ErrRedirectUri
            [] ~Missing(lastOptions.clientId)
               /\ ~Missing(lastOptions.redirectUri)
               /\ Missing(lastOptions.authorizationCode)
               /\ Missing(lastOptions.interactionCode) -> ErrCode
            [] ~Missing(lastOptions.clientId)
               /\ ~Missing(lastOptions.redirectUri)
               /\ ~(Missing(lastOptions.authorizationCode)
                    /\ Missing(lastOptions.interactionCode))
               /\ Missing(lastOptions.codeVerifier) -> ErrCodeVerifier
            [] OTHER -> ErrNone)

\* both codes and the codeVerifier are missing: only the code error is raised
C8_Witness ==
  /\ lastOp = "exchangeCodeForTokens"
  /\ ~Missing(lastOptions.clientId)
  /\ ~Missing(lastOptions.redirectUri)
  /\ Missing(lastOptions.authorizationCode)
  /\ Missing(lastOptions.interactionCode)
  /\ Missing(lastOptions.codeVerifier)
  /\ lastError = ErrCode

\* C9: a call of exchangeCodeForTokens that fails a precondition check issues
\* no HTTP request.
C9_NoRequestWhenInvalid ==
  (/\ lastOp = "exchangeCodeForTokens"
   /\ \/ Missing(lastOptions.clientId)
      \/ Missing(lastOptions.redirectUri)
      \/ (Missing(lastOptions.authorizationCode)
          /\ Missing(lastOptions.interactionCode))
      \/ Missing(lastOptions.codeVerifier))
    => /\ lastError \in ValidationErrors
       /\ lastRequests = <<>>

\* only the codeVerifier is missing: the call throws and sends nothing
C9_Witness ==
  /\ lastOp = "exchangeCodeForTokens"
  /\ ~Missing(lastOptions.clientId)
  /\ ~Missing(lastOptions.redirectUri)
  /\ ~Missing(lastOptions.authorizationCode)
  /\ Missing(lastOptions.codeVerifier)
  /\ lastError = ErrCodeVerifier
  /\ lastRequests = <<>>

\* the character a percent escape stands for
Unescaped(esc) ==
  CASE esc = <<"%", "3", "A">> -> ":"
    [] esc = <<"%", "2", "F">> -> "/"
    [] esc = <<"%", "2", "6">> -> "&"
    [] esc = <<"%", "3", "D">> -> "="
    [] OTHER -> "?"

\* what the token endpoint reads back from a form-encoded value
RECURSIVE FormDecode(_)
FormDecode(str) ==
  IF str = <<>> THEN <<>>
  ELSE IF Head(str) = "%" /\ Len(str) >= 3
    THEN <<Unescaped(SubSeq(str, 1, 3))>> \o FormDecode(SubSeq(str, 4, Len(str)))
  ELSE <<Head(str)>> \o FormDecode(Tail(str))

\* the decoded values the form body carries for a key, in order
RECURSIVE FieldValues(_, _)
FieldValues(body, key) ==
  IF body = <<>> THEN <<>>
  ELSE (IF Head(body)[1] = key THEN <<FormDecode(Head(body)[2])>> ELSE <<>>)
       \o FieldValues(Tail(body), key)

\* C10: in the body of a request sent, a set interactionCode gives
\* grant_type=interaction_code, interaction_code=<interactionCode> and no code
\* field, whether or not authorizationCode is set; authorizationCode alone
\* gives grant_type=authorization_code, code=<authorizationCode> and no
\* interaction_code field.
C10_GrantSelection ==
  (lastOp = "exchangeCodeForTokens" /\ lastRequests # <<>>)
    => /\ ~Missing(lastOptions.interactionCode)
            => /\ FieldValues(lastRequests[1].args, "grant_type")
                    = <<GrantInteractionCode>>
               /\ FieldValues(lastRequests[1].args, "interaction_code")
                    = <<lastOptions.interactionCode>>
               /\ FieldValues(lastRequests[1].args, "code") = <<>>
       /\ (Missing(lastOptions.interactionCode)
           /\ ~Missing(lastOptions.authorizationCode))
            => /\ FieldValues(lastRequests[1].args, "grant_type")
                    = <<GrantAuthorizationCode>>
               /\ FieldValues(lastRequests[1].args, "code")
                    = <<lastOptions.authorizationCode>>
               /\ FieldValues(lastRequests[1].args, "interaction_code") = <<>>

\* both codes are set and the request sent is an interaction_code grant
C10_Witness ==
  /\ lastOp = "exchangeCodeForTokens"
  /\ lastRequests # <<>>
  /\ ~Missing(lastOptions.interactionCode)
  /\ ~Missing(lastOptions.authorizationCode)
  /\ FieldValues(lastRequests[1].args, "grant_type") = <<GrantInteractionCode>>

\* the keys of a form body
BodyKeys(body) == { body[i][1] : i \in 1..Len(body) }

FormKeys ==
  {"client_id", "redirect_uri", "grant_type", "code_verifier", "code",
   "interaction_code"}

\* C11: every body sent has only the six form keys, exactly one of code and
\* interaction_code, no key with an unset or empty value, and client_id,
\* redirect_uri and code_verifier equal to the non-empty clientId, redirectUri
\* and codeVerifier passed in.
C11_BodyWellFormed ==
  (lastOp = "exchangeCodeForTokens" /\ lastRequests # <<>>)
    => /\ BodyKeys(lastRequests[1].args) \subseteq FormKeys
       /\ Len(FieldValues(lastRequests[1].args, "code"))
            + Len(FieldValues(lastRequests[1].args, "interaction_code")) = 1
       /\ \A i \in 1..Len(lastRequests[1].args) :
            /\ lastRequests[1].args[i][2] # EmptyString
            /\ FormDecode(lastRequests[1].args[i][2]) # Undefined
       /\ ~Missing(lastOptions.clientId)
       /\ ~Missing(lastOptions.redirectUri)
       /\ ~Missing(lastOptions.codeVerifier)
       /\ FieldValues(lastRequests[1].args, "client_id")
            = <<lastOptions.clientId>>
       /\ FieldValues(lastRequests[1].args, "redirect_uri")
            = <<lastOptions.redirectUri>>
       /\ FieldValues(lastRequests[1].args, "code_verifier")
            = <<lastOptions.codeVerifier>>

\* a request sent with authorizationCode the empty string: no code key
C11_Witness ==
  /\ lastOp = "exchangeCodeForTokens"
  /\ lastRequests # <<>>
  /\ lastOptions.authorizationCode = EmptyString
  /\ "code" \notin BodyKeys(lastRequests[1].args)
  /\ "interaction_code" \in BodyKeys(lastRequests[1].args)

\* C12: a call whose parameters pass validation issues exactly one POST to
\* the token endpoint, without credentials, and never another one; the promise
\* it returned is pending while the request is, and settles with exactly what
\* the request settled with, response or transport error.
C12_OneRequestPassedThrough ==
  (lastOp = "exchangeCodeForTokens" /\ lastError = ErrNone)
    => /\ Len(lastRequests) = 1
       /\ lastRequests[1].method = "POST"
       /\ lastRequests[1].url = TokenUrl
       /\ lastRequests[1].withCredentials = FALSE
       /\ httpResult # NoOutcome
       /\ returned = httpResult

\* the request failed and the caller got the transport error, after one POST
C12_Witness ==
  /\ lastOp = "exchangeCodeForTokens"
  /\ lastError = ErrNone
  /\ httpResult.kind = "rejected"
  /\ returned = httpResult
  /\ Len(lastRequests) = 1

\* the characters encodeURIComponent leaves alone, and the "%" of its escapes
UnreservedChars ==
  {"a", "b", "c", "d", "e", "f", "g", "h", "i", "j", "k", "l", "m", "n", "o",
   "p", "q", "r", "s", "t", "u", "v", "w", "x", "y", "z",
   "A", "B", "C", "D", "E", "F", "G", "H", "I", "J", "K", "L", "M", "N", "O",
   "P", "Q", "R", "S", "T", "U", "V", "W", "X", "Y", "Z",
   "0", "1", "2", "3", "4", "5", "6", "7", "8", "9",
   "-", "_", ".", "!", "~", "*", "'", "(", ")"}
UrlSafe(str) == \A i \in 1..Len(str) : str[i] \in UnreservedChars \cup {"%"}

\* the length of the prefix argument, 0 when it is omitted
PrefixLen(prefix) == IF prefix = Undefined THEN 0 ELSE Len(prefix)

\* the prefix holds a character that encodeURIComponent escapes
HasEscapedChar(prefix) ==
  /\ prefix # Undefined
  /\ \E i \in 1..Len(prefix) : prefix[i] \notin UnreservedChars

\* C14 as stated: without a prefix, or with one shorter than
\* MIN_VERIFIER_LENGTH, the string returned has exactly MIN_VERIFIER_LENGTH
\* characters, all URL-safe.
C14_ExactlyMinLength ==
  (genDone /\ PrefixLen(genPrefix) < MIN_VERIFIER_LENGTH)
    => /\ Len(genResult) = MIN_VERIFIER_LENGTH
       /\ UrlSafe(genResult)

\* C14 amended: without a prefix, or with one shorter than
\* MIN_VERIFIER_LENGTH, the string returned has exactly MIN_VERIFIER_LENGTH
\* characters when the prefix holds no character that percent-encoding
\* escapes, and between MIN_VERIFIER_LENGTH and MAX_VERIFIER_LENGTH otherwise;
\* its characters are all URL-safe (unreserved, or the "%" of an escape).
C14_MinLengthUnlessEscaped ==
  (genDone /\ PrefixLen(genPrefix) < MIN_VERIFIER_LENGTH)
    => /\ Len(genResult) >= MIN_VERIFIER_LENGTH
       /\ Len(genResult) <= MAX_VERIFIER_LENGTH
       /\ ~HasEscapedChar(genPrefix) => Len(genResult) = MIN_VERIFIER_LENGTH
       /\ UrlSafe(genResult)

\* a short prefix with an escaped character: padded, then longer once encoded
C14_Witness ==
  /\ genDone
  /\ PrefixLen(genPrefix) < MIN_VERIFIER_LENGTH
  /\ HasEscapedChar(genPrefix)
  /\ genRandomUsed > 0
  /\ Len(genResult) > MIN_VERIFIER_LENGTH

\* C15: for a prefix of MIN_VERIFIER_LENGTH characters or more no random
\* character is asked for and the string returned is the percent-encoding of
\* the prefix cut to MAX_VERIFIER_LENGTH; for every prefix the string returned
\* is at most MAX_VERIFIER_LENGTH long.
C15_LongPrefixEncodedAndCut ==
  genDone
    => /\ Len(genResult) <= MAX_VERIFIER_LENGTH
       /\ PrefixLen(genPrefix) >= MIN_VERIFIER_LENGTH
            => /\ genRandomUsed = 0
               /\ genResult
                    = Slice0(encodeURIComponent(genPrefix), MAX_VERIFIER_LENGTH)

\* a prefix within MAX_VERIFIER_LENGTH whose encoding is longer, and is cut
C15_Witness ==
  /\ genDone
  /\ PrefixLen(genPrefix) >= MIN_VERIFIER_LENGTH
  /\ PrefixLen(genPrefix) < MAX_VERIFIER_LENGTH
  /\ HasEscapedChar(genPrefix)
  /\ Len(genResult) = MAX_VERIFIER_LENGTH
  /\ genRandomUsed = 0

\* C13: in a single flow generateVerifier() yields v, loadMeta() after the
\* redirect returns v, the exchange issues exactly one POST whose
\* code_verifier is v, and after the final clearMeta() both tiers are empty,
\* so the second handling of the callback fails in loadMeta().
C13_EndToEnd ==
  /\ flowPc \in {"loaded", "exchanging", "exchanged", "cleared", "done"}
       => /\ ~flowLoad1.threw
          /\ flowLoad1.obj.codeVerifier = genResult
  /\ flowPc # "failed" \/ httpResult.kind = "rejected"
  /\ flowPc \in {"exchanging", "exchanged", "cleared", "done"}
       => /\ Len(flowPosts) = 1
          /\ flowPosts[1].method = "POST"
          /\ FieldValues(flowPosts[1].args, "code_verifier") = <<genResult>>
  /\ flowPc \in {"cleared", "done"}
       => storage = [t \in Tiers |-> EmptyObject]
  /\ flowPc = "done" => lastLoad.threw


\* C16: two flows whose operations overlap on the shared tiers can reach both
\* bad outcomes: a flow that completed saveMeta has its later loadMeta fail,
\* and that only because a storage call of another flow's saveMeta or clearMeta
\* removed its record; and
\* a flow's loadMeta succeeds and returns, in full, the record another flow
\* saved.  A loadMeta never returns anything but a saved record.
C16_OverlapOutcomes ==
  \A p \in Flows :
    /\ procs.flow[p].pc = "failed" => procs.flow[p].lost
    /\ procs.flow[p].pc \in {"clear", "done"}
         => \E o \in Flows : procs.flow[p].loaded = OwnMeta(o)

\* both outcomes in one run: one flow's loadMeta failed, another flow's
\* loadMeta returned a record that is not its own
C16_Witness ==
  \E p, q \in Flows :
    /\ p # q
    /\ procs.flow[p].pc = "failed"
    /\ procs.flow[p].lost
    /\ procs.flow[q].pc \in {"clear", "done"}
    /\ procs.flow[q].loaded = OwnMeta(p)

\* every flow's saveMeta has returned and no flow has gone further
AllSaved == \A p \in Flows : procs.flow[p].pc = "load" /\ procs.flow[p].i = 1

NoWarning == \A p \in Flows : procs.flow[p].warnings = <<>>

\* C17 as stated: whenever two saveMeta calls overlap, at least one of them
\* emits the hazard warning.
C17_OverlapDetected ==
  (AllSaved /\ procs.overlapped) => ~NoWarning

\* C17: a saveMeta call emits one hazard warning for each of its inspections
\* that finds another flow's record in the inspected tier, and no other; when
\* the calls all inspect before any of them writes, none warns.
C17_WarnsWhenRecordSeen ==
  \A p \in Flows : Len(procs.flow[p].warnings) = procs.flow[p].seen

\* two calls overlapped and one of them inspected a tier after the other wrote
\* its record there
C17_Witness ==
  /\ AllSaved
  /\ procs.overlapped
  /\ \E p \in Flows :
       procs.flow[p].seen > 0 /\ Len(procs.flow[p].warnings) > 0

\* C18: in every interleaving of the storage calls of two saveMeta calls, once
\* both have returned tier A is empty and tier B holds in full the record of the
\* call whose write ran last.
C18_LastWriteWins ==
  AllSaved
    => /\ storage[LocalStorage] = EmptyObject
       /\ storage[SessionStorage] = OwnMeta(procs.lastWriter)

\* C19: loadMeta is read-only.  Whether it returned a record or threw, the
\* two tiers hold what they held before the call, and a loadMeta called next,
\* under any configuration, has the same outcome.
C19_LoadReadOnly ==
  lastOp = "loadMeta"
    => /\ storage = preStorage
       /\ \A cookies \in PreferValues : loadMeta(storage, cookies) = lastLoad

\* a loadMeta returned a record that is still stored, and the loadMeta before
\* it had returned it too
C19_Witness ==
  /\ lastOp = "loadMeta"
  /\ prevOp = "loadMeta"
  /\ ~lastLoad.threw
  /\ HasVerifier(lastLoad.obj)
  /\ \E t \in Tiers : storage[t] = lastLoad.obj

\* C20: saveMeta does not validate its argument.  Called with a meta whose
\* codeVerifier is absent or empty it does not throw, leaves tier A empty and
\* tier B holding that meta, and a loadMeta called next throws although tier B
\* holds the meta.
C20_SavesInvalidMeta ==
  /\ (lastOp = "saveMeta" /\ ~HasVerifier(lastMeta))
       => /\ ~lastThrew
          /\ storage[LocalStorage] = EmptyObject
          /\ storage[SessionStorage] = lastMeta
  /\ (lastOp = "loadMeta" /\ prevOp = "saveMeta" /\ ~HasVerifier(prevSaved[1]))
       => /\ lastLoad.threw
          /\ storage[SessionStorage] = prevSaved[1]
====
